---- MODULE Spec2Model ----
(***************************************************************************)
(* The unwinding bridge of sgx_panic_unwind (gcc.rs): the exception        *)
(* envelope and its raise / cleanup / discard lifecycle, the resolver      *)
(* wrapper find_eh_action, and the personality routine                     *)
(* rust_eh_personality, driven by the two-phase unwinder of sgx_unwind.    *)
(***************************************************************************)
EXTENDS Integers, Sequences, FiniteSets, TLC

\* ------------------------------------------------------------------ bounds
\* Frames on a stack (the raising function and its callers).
MaxFrames == 3
\* Raises one thread performs in a run.
MaxRaises == 1
\* Heap cells an envelope can be allocated in.
MaxEnv == 1
\* Width of an address (usize), scaled down.
AddrBits == 4

AddrMod == 2 ^ AddrBits
\* Payloads are opaque to the bridge: two values that can be told apart.
Payloads == {1, 2}
Addrs == 1 .. MaxEnv

\* ---------------------------------------------------- foreign ABI constants
URC_FATAL_PHASE1_ERROR == "URC_FATAL_PHASE1_ERROR"
URC_FATAL_PHASE2_ERROR == "URC_FATAL_PHASE2_ERROR"
URC_CONTINUE_UNWIND == "URC_CONTINUE_UNWIND"
URC_HANDLER_FOUND == "URC_HANDLER_FOUND"
URC_INSTALL_CONTEXT == "URC_INSTALL_CONTEXT"
URC_END_OF_STACK == "URC_END_OF_STACK"
\* Bits of the _Unwind_Action argument.
UA_SEARCH_PHASE == 1
UA_CLEANUP_PHASE == 2
UA_HANDLER_FRAME == 4

HasBit(actions, bit) == (actions \div bit) % 2 = 1

\* M O Z \0 R U S T, the eight bytes of 0x4d4f5a_00_52555354.
rust_exception_class == <<77, 79, 90, 0, 82, 85, 83, 84>>
\* G N U C C + + \0, an exception class of another runtime.
ForeignClass == <<71, 78, 85, 67, 67, 43, 43, 0>>

\* x86_64: RAX, RDX.
UNWIND_DATA_REG == <<0, 1>>
RegIds == {0, 1, 2}

\* --------------------------------------------------------------- EHAction
EHNone == [tag |-> "None", lpad |-> 0]
EHCleanup(lpad) == [tag |-> "Cleanup", lpad |-> lpad]
EHCatch(lpad) == [tag |-> "Catch", lpad |-> lpad]
EHTerminate == [tag |-> "Terminate", lpad |-> 0]
Ok(action) == [ok |-> TRUE, action |-> action]
Err == [ok |-> FALSE, action |-> EHNone]

\* ------------------------------------------------- metadata tables (LSDA)
\* A table is a sequence of call-site records sorted by start; offsets are
\* relative to the function start, a landing pad of a record is an offset too.
\* The records of a table tile the function's range 0 .. FuncLen-1.
CallSite(start, len, tag, lpad) == [start |-> start, len |-> len, tag |-> tag, lpad |-> lpad]
LsdaA ==
    << CallSite(0, 2, "None", 0), CallSite(2, 2, "Cleanup", 8), CallSite(4, 2, "Catch", 9),
       CallSite(6, 2, "Terminate", 0), CallSite(8, 2, "None", 0) >>
LsdaB ==
    << CallSite(0, 3, "Catch", 8), CallSite(3, 1, "None", 0), CallSite(4, 3, "Cleanup", 9),
       CallSite(7, 3, "None", 0) >>
Corrupt == << CallSite(0, 0, "Corrupt", 0) >>
Lsdas == {LsdaA, LsdaB, Corrupt}
FuncLen(lsda) == lsda[Len(lsda)].start + lsda[Len(lsda)].len

EHResults ==
    {Err} \cup {Ok(EHNone), Ok(EHTerminate)}
      \cup {Ok(EHCleanup(l)) : l \in 0 .. AddrMod - 1} \cup {Ok(EHCatch(l)) : l \in 0 .. AddrMod - 1}

ActionOf(cs, func_start) ==
    CASE cs.tag = "None" -> EHNone
      [] cs.tag = "Cleanup" -> EHCleanup((func_start + cs.lpad) % AddrMod)
      [] cs.tag = "Catch" -> EHCatch((func_start + cs.lpad) % AddrMod)
      [] OTHER -> EHTerminate

\* The external decoder eh::find_eh_action: the results it can give for a table
\* and an EHContext.  Unreadable metadata is an error; an instruction pointer
\* inside the function's range selects the record whose range holds it; for an
\* instruction pointer outside the range the decoder's behaviour is undefined.
Decode(lsda, eh_context) ==
    LET off == eh_context.ip - eh_context.func_start
        hit == {i \in 1 .. Len(lsda) : lsda[i].start <= off /\ off < lsda[i].start + lsda[i].len}
    IN  IF lsda = Corrupt THEN {Err}
        ELSE IF hit = {} THEN EHResults
        ELSE {Ok(ActionOf(lsda[i], eh_context.func_start)) : i \in hit}

\* ------------------------------------------------------------ FrameContext
\* What the foreign runtime's accessors give for a frame: _Unwind_GetIPInfo (ip,
\* ip_before_instr), _Unwind_GetRegionStart, _Unwind_GetLanguageSpecificData,
\* and the registers and instruction pointer _Unwind_SetGR / _Unwind_SetIP write.
\* pers names the personality routine the frame's unwind info points to.
Context(ip, ip_before_instr, func_start, lsda, pers) ==
    [ip |-> ip, ip_before_instr |-> ip_before_instr, func_start |-> func_start,
     lsda |-> lsda, gr |-> [r \in RegIds |-> 7], pers |-> pers]

Call(op, a, b) == [op |-> op, a |-> a, b |-> b]

\* ---------------------------------------------------------- find_eh_action
EHContextOfNoAdjust(context) ==
    [ip |-> context.ip, func_start |-> context.func_start]
EHContextOf(context) ==
    [ip |-> IF context.ip_before_instr # 0 THEN context.ip
            ELSE (context.ip + AddrMod - 1) % AddrMod,
     func_start |-> context.func_start]

find_eh_action(context) == Decode(context.lsda, EHContextOf(context))

FindCalls(context) ==
    << Call("GetLanguageSpecificData", 0, 0), Call("GetIPInfo", 0, 0),
       Call("GetRegionStart", 0, 0), Call("decode", EHContextOf(context).ip, 0) >>

\* ----------------------------------------------------- rust_eh_personality
\* The outcome of one call: the reason code, the frame context as the call
\* leaves it, and the calls made to the foreign runtime and the decoder.
\* eh is what the resolver answered (NotAsked: it was not called).
NotAsked == [ok |-> FALSE, action |-> [tag |-> "NotAsked", lpad |-> 0]]
Outcome(rc, context, calls, eh) == [rc |-> rc, context |-> context, calls |-> calls, eh |-> eh]

InstallContextSwapped(context, exception_object, lpad) ==
    [context EXCEPT !.gr = [@ EXCEPT ![UNWIND_DATA_REG[2]] = exception_object,
                                     ![UNWIND_DATA_REG[1]] = 0],
                    !.ip = lpad]
InstallContextStatic(context, exception_object, lpad) ==
    [context EXCEPT !.gr = [@ EXCEPT ![UNWIND_DATA_REG[1]] = 1,
                                     ![UNWIND_DATA_REG[2]] = 0],
                    !.ip = lpad]
InstallContext(context, exception_object, lpad) ==
    [context EXCEPT !.gr = [@ EXCEPT ![UNWIND_DATA_REG[1]] = exception_object,
                                     ![UNWIND_DATA_REG[2]] = 0],
                    !.ip = lpad]
InstallCalls(exception_object, lpad) ==
    << Call("SetGR", UNWIND_DATA_REG[1], exception_object),
       Call("SetGR", UNWIND_DATA_REG[2], 0), Call("SetIP", lpad, 0) >>

SearchPhaseCleanupCatches(eh_action, context, calls) ==
    CASE eh_action.tag = "None" -> Outcome(URC_CONTINUE_UNWIND, context, calls, Ok(eh_action))
      [] eh_action.tag \in {"Cleanup", "Catch"} ->
            Outcome(URC_HANDLER_FOUND, context, calls, Ok(eh_action))
      [] eh_action.tag = "Terminate" ->
            Outcome(URC_FATAL_PHASE1_ERROR, context, calls, Ok(eh_action))
SearchPhaseTerminateContinues(eh_action, context, calls) ==
    CASE eh_action.tag \in {"None", "Cleanup", "Terminate"} ->
            Outcome(URC_CONTINUE_UNWIND, context, calls, Ok(eh_action))
      [] eh_action.tag = "Catch" -> Outcome(URC_HANDLER_FOUND, context, calls, Ok(eh_action))
SearchPhaseWrites(eh_action, context, calls) ==
    CASE eh_action.tag \in {"None", "Cleanup"} ->
            Outcome(URC_CONTINUE_UNWIND, context, calls, Ok(eh_action))
      [] eh_action.tag = "Catch" ->
            Outcome(URC_HANDLER_FOUND, InstallContext(context, 0, eh_action.lpad),
                    calls \o InstallCalls(0, eh_action.lpad), Ok(eh_action))
      [] eh_action.tag = "Terminate" ->
            Outcome(URC_FATAL_PHASE1_ERROR, context, calls, Ok(eh_action))
SearchPhase(eh_action, context, calls) ==
    CASE eh_action.tag \in {"None", "Cleanup"} ->
            Outcome(URC_CONTINUE_UNWIND, context, calls, Ok(eh_action))
      [] eh_action.tag = "Catch" -> Outcome(URC_HANDLER_FOUND, context, calls, Ok(eh_action))
      [] eh_action.tag = "Terminate" ->
            Outcome(URC_FATAL_PHASE1_ERROR, context, calls, Ok(eh_action))

CleanupPhaseNoneInstalls(eh_action, exception_object, context, calls) ==
    CASE eh_action.tag \in {"None", "Cleanup", "Catch"} ->
            Outcome(URC_INSTALL_CONTEXT,
                    InstallContext(context, exception_object, eh_action.lpad),
                    calls \o InstallCalls(exception_object, eh_action.lpad),
                    Ok(eh_action))
      [] eh_action.tag = "Terminate" ->
            Outcome(URC_FATAL_PHASE2_ERROR, context, calls, Ok(eh_action))
CleanupPhaseSkipsCleanup(eh_action, exception_object, context, calls) ==
    CASE eh_action.tag \in {"None", "Cleanup"} ->
            Outcome(URC_CONTINUE_UNWIND, context, calls, Ok(eh_action))
      [] eh_action.tag = "Catch" ->
            Outcome(URC_INSTALL_CONTEXT,
                    InstallContext(context, exception_object, eh_action.lpad),
                    calls \o InstallCalls(exception_object, eh_action.lpad),
                    Ok(eh_action))
      [] eh_action.tag = "Terminate" ->
            Outcome(URC_FATAL_PHASE2_ERROR, context, calls, Ok(eh_action))
CleanupPhaseCatchContinues(eh_action, exception_object, context, calls) ==
    CASE eh_action.tag \in {"None", "Catch"} ->
            Outcome(URC_CONTINUE_UNWIND, context, calls, Ok(eh_action))
      [] eh_action.tag = "Cleanup" ->
            Outcome(URC_INSTALL_CONTEXT,
                    InstallContext(context, exception_object, eh_action.lpad),
                    calls \o InstallCalls(exception_object, eh_action.lpad),
                    Ok(eh_action))
      [] eh_action.tag = "Terminate" ->
            Outcome(URC_FATAL_PHASE2_ERROR, context, calls, Ok(eh_action))
CleanupPhase(eh_action, exception_object, context, calls) ==
    CASE eh_action.tag = "None" -> Outcome(URC_CONTINUE_UNWIND, context, calls, Ok(eh_action))
      [] eh_action.tag \in {"Cleanup", "Catch"} ->
            Outcome(URC_INSTALL_CONTEXT,
                    InstallContext(context, exception_object, eh_action.lpad),
                    calls \o InstallCalls(exception_object, eh_action.lpad),
                    Ok(eh_action))
      [] eh_action.tag = "Terminate" ->
            Outcome(URC_FATAL_PHASE2_ERROR, context, calls, Ok(eh_action))

ResolveFailed(context, calls) == Outcome(URC_FATAL_PHASE1_ERROR, context, calls, Err)

VersionOkLoose(version) == version >= 1
VersionOk(version) == version = 1

\* The routine never returning for a frame it cannot resolve.
rust_eh_personality_hangs(version, actions, exception_class, exception_object, context) ==
    IF ~VersionOk(version) THEN {Outcome(URC_FATAL_PHASE1_ERROR, context, <<>>, NotAsked)}
    ELSE { IF HasBit(actions, UA_SEARCH_PHASE)
           THEN SearchPhase(res.action, context, FindCalls(context))
           ELSE CleanupPhase(res.action, exception_object, context, FindCalls(context))
           : res \in {r \in find_eh_action(context) : r.ok} }
\* The routine passing every frame for an exception of another runtime.
rust_eh_personality_own_only(version, actions, exception_class, exception_object, context) ==
    IF ~VersionOk(version) THEN {Outcome(URC_FATAL_PHASE1_ERROR, context, <<>>, NotAsked)}
    ELSE { IF ~res.ok THEN ResolveFailed(context, FindCalls(context))
           ELSE IF exception_class # rust_exception_class
                THEN Outcome(URC_CONTINUE_UNWIND, context, FindCalls(context), res)
           ELSE IF HasBit(actions, UA_SEARCH_PHASE)
                THEN SearchPhase(res.action, context, FindCalls(context))
                ELSE CleanupPhase(res.action, exception_object, context, FindCalls(context))
           : res \in find_eh_action(context) }
\* The set of outcomes of rust_eh_personality (one, unless the decoder's result
\* is undefined).
rust_eh_personality(version, actions, exception_class, exception_object, context) ==
    IF ~VersionOk(version) THEN {Outcome(URC_FATAL_PHASE1_ERROR, context, <<>>, NotAsked)}
    ELSE { IF ~res.ok THEN ResolveFailed(context, FindCalls(context))
           ELSE IF HasBit(actions, UA_SEARCH_PHASE)
                THEN SearchPhase(res.action, context, FindCalls(context))
                ELSE CleanupPhase(res.action, exception_object, context, FindCalls(context))
           : res \in find_eh_action(context) }


\* ------------------------------------------------------------------ state
VARIABLES
    heap,      \* heap cell -> the Exception stored there (header and cause slot)
    stack,     \* thread -> its frames, innermost first (FrameContext each)
    pc,        \* thread -> where the thread is
    cur,       \* thread -> index of the frame the unwinder is visiting
    handler,   \* thread -> index of the handler frame found by the search (0: none)
    exc,       \* thread -> pointer of the exception in flight (0: none)
    ret,       \* thread -> the reason code panic returned ("none": not returned)
    base,      \* thread -> frames popped since the raise began
    plog,      \* thread -> personality results of the current unwind, in order
    envs,      \* history: one record per envelope ever raised
    eid,       \* thread -> index in envs of the exception in flight
    got,       \* thread -> what the last cleanup call returned (0: nothing yet)
    raises,    \* thread -> raises performed
    held,      \* thread -> the handle of the last cleanup call (0: none)
    ub,        \* history: an undefined memory access has happened
    last       \* the last personality call: its arguments and its outcome

vars == <<heap, stack, pc, cur, handler, exc, ret, base, plog, envs, eid, got, raises, held, ub, last>>

Threads == DOMAIN pc
Alive == \A t \in Threads : pc[t] # "aborted"

\* ------------------------------------------------------- Exception (heap)
\* struct Exception { _uwe: _Unwind_Exception, cause: Option<Box<dyn Any + Send>> };
\* cause 0 is None.
Unallocated ==
    [st |-> "unalloc", exception_class |-> <<>>, exception_cleanup |-> "null", private |-> 0, cause |-> 0]
NewExceptionEmpty(data) ==
    [st |-> "live", exception_class |-> rust_exception_class,
     exception_cleanup |-> "exception_cleanup", private |-> 0, cause |-> 0]
NewExceptionNoCallback(data) ==
    [st |-> "live", exception_class |-> rust_exception_class,
     exception_cleanup |-> "null", private |-> 0, cause |-> data]
NewException(data) ==
    [st |-> "live", exception_class |-> rust_exception_class,
     exception_cleanup |-> "exception_cleanup", private |-> 0, cause |-> data]

\* One record of envs.
EnvRecord(a, p, t, frames) ==
    [addr |-> a, payload |-> p, thread |-> t, frames |-> frames, cleanups |-> 0,
     callbacks |-> 0, returned |-> <<>>, frees |-> 0, destroyed |-> 0, allocs |-> 1]

\* The envelope that lives (or last lived) at heap cell a: its index in envs, 0 if none.
EnvAt(es, a) ==
    LET S == {i \in 1 .. Len(es) : es[i].addr = a}
    IN  IF S = {} THEN 0 ELSE CHOOSE i \in S : \A j \in S : j <= i

\* ------------------------------------------------------------ frame kinds
FuncBase == 4
\* The frames the stacks of a run are built from: return addresses (flag 0)
\* on the boundaries of LsdaA's ranges, a frame with unreadable metadata, and
\* a frame of another language whose own personality routine catches
\* everything.
KNone == Context(FuncBase + 2, 0, FuncBase, LsdaA, "rust")
KCleanup == Context(FuncBase + 4, 0, FuncBase, LsdaA, "rust")
KCatch == Context(FuncBase + 6, 0, FuncBase, LsdaA, "rust")
KTerminate == Context(FuncBase + 8, 0, FuncBase, LsdaA, "rust")
KCorrupt == Context(FuncBase + 2, 0, FuncBase, Corrupt, "rust")
KForeign == Context(FuncBase + 2, 0, FuncBase, LsdaA, "foreign")
FrameKinds == {KNone, KCleanup, KCatch, KTerminate, KCorrupt, KForeign}
\* The frame of a function that has not made its call yet.
Entry == Context(FuncBase, 1, FuncBase, LsdaA, "rust")

RECURSIVE SeqsUpTo(_, _)
SeqsUpTo(S, n) ==
    IF n = 0 THEN {<<>>}
    ELSE LET R == SeqsUpTo(S, n - 1) IN R \cup {<<x>> \o r : x \in S, r \in {q \in R : Len(q) = n - 1}}

\* What a cleanup call gives its caller: a payload, or the panic of unwrap
\* (NoResult: no call yet).
NoResult == [kind |-> "none", value |-> 0, second |-> FALSE]

NoCall ==
    [called |-> FALSE, version |-> 0, actions |-> 0, exception_class |-> <<>>,
     exception_object |-> 0, context |-> Entry, out |-> Outcome("none", Entry, <<>>, NotAsked)]
CallRecord(version, actions, class, object, context, out) ==
    [called |-> TRUE, version |-> version, actions |-> actions, exception_class |-> class,
     exception_object |-> object, context |-> context, out |-> out]

\* The heap has room for an envelope of every thread.
Cells(T) == 1 .. MaxEnv + Cardinality(T) - 1
InitOn(T) ==
    /\ heap = [a \in Cells(T) |-> Unallocated]
    /\ stack \in [T -> {<<Entry>> \o s : s \in SeqsUpTo(FrameKinds, MaxFrames - 1)}]
    /\ pc = [t \in T |-> "running"]
    /\ cur = [t \in T |-> 0]
    /\ handler = [t \in T |-> 0]
    /\ exc = [t \in T |-> 0]
    /\ ret = [t \in T |-> "none"]
    /\ base = [t \in T |-> 0]
    /\ plog = [t \in T |-> <<>>]
    /\ envs = <<>>
    /\ eid = [t \in T |-> 0]
    /\ got = [t \in T |-> NoResult]
    /\ raises = [t \in T |-> 0]
    /\ held = [t \in T |-> 0]
    /\ ub = FALSE
    /\ last = NoCall

Init == InitOn({1})


\* ----------------------------------------------------------------- panic
\* panic(data): Box::new(Exception { .. cause: Some(data) }), then
\* _Unwind_RaiseException on the raw pointer.  The call made from the running
\* function gives its frame the context k; the unwinder starts its search
\* at that frame.
Raise(t, data, k, a) ==
    /\ Alive
    /\ pc[t] = "running"
    /\ raises[t] < MaxRaises
    /\ heap[a].st # "live"
    /\ heap' = [heap EXCEPT ![a] = NewException(data)]
    /\ stack' = [stack EXCEPT ![t] = <<k>> \o Tail(@)]
    /\ pc' = [pc EXCEPT ![t] = "search"]
    /\ cur' = [cur EXCEPT ![t] = 1]
    /\ handler' = [handler EXCEPT ![t] = 0]
    /\ exc' = [exc EXCEPT ![t] = a]
    /\ base' = [base EXCEPT ![t] = 0]
    /\ plog' = [plog EXCEPT ![t] = <<>>]
    /\ envs' = Append(envs, EnvRecord(a, data, t, <<k>> \o Tail(stack[t])))
    /\ eid' = [eid EXCEPT ![t] = Len(envs) + 1]
    /\ raises' = [raises EXCEPT ![t] = @ + 1]
    /\ UNCHANGED <<ret, got, held, ub, last>>

\* ------------------------------------------------ the unwinder (sgx_unwind)
\* The personality routine of another language's frame: it catches everything.
ForeignPersonality(actions, exception_object, context) ==
    IF HasBit(actions, UA_SEARCH_PHASE) THEN Outcome(URC_HANDLER_FOUND, context, <<>>, NotAsked)
    ELSE Outcome(URC_INSTALL_CONTEXT,
                 [context EXCEPT !.gr = [@ EXCEPT ![UNWIND_DATA_REG[1]] = exception_object],
                                 !.ip = context.func_start],
                 <<>>, NotAsked)

\* The outcomes of the personality routine of a frame.
PersonalityOf(actions, class, object, context) ==
    IF context.pers = "foreign" THEN {ForeignPersonality(actions, object, context)}
    ELSE rust_eh_personality(1, actions, class, object, context)

LogEntry(phase, frame, out) ==
    [phase |-> phase, frame |-> frame, rc |-> out.rc, pers |-> out.context.pers,
     wrote |-> \E i \in 1 .. Len(out.calls) : out.calls[i].op \in {"SetGR", "SetIP"}]

\* Phase 1: one frame of the search, or the end of the stack.  Anything but
\* continue-unwind and handler-found ends _Unwind_RaiseException, and panic
\* returns its code.
SearchStep(t) ==
    /\ Alive
    /\ pc[t] = "search"
    /\ IF cur[t] > Len(stack[t])
       THEN /\ pc' = [pc EXCEPT ![t] = "returned"]
            /\ ret' = [ret EXCEPT ![t] = URC_END_OF_STACK]
            /\ UNCHANGED <<cur, handler, plog, last, stack>>
       ELSE LET context == stack[t][cur[t]]
                class == heap[exc[t]].exception_class
            IN  \E out \in PersonalityOf(UA_SEARCH_PHASE, class, exc[t], context) :
                  /\ stack' = [stack EXCEPT ![t][cur[t]] = out.context]
                  /\ plog' = [plog EXCEPT ![t] = Append(@, LogEntry("search", cur[t] + base[t], out))]
                  /\ last' = IF context.pers = "rust"
                             THEN CallRecord(1, UA_SEARCH_PHASE, class, exc[t], context, out)
                             ELSE last
                  /\ CASE out.rc = URC_CONTINUE_UNWIND ->
                            /\ cur' = [cur EXCEPT ![t] = @ + 1]
                            /\ UNCHANGED <<pc, handler, ret>>
                       [] out.rc = URC_HANDLER_FOUND ->
                            /\ handler' = [handler EXCEPT ![t] = cur[t]]
                            /\ cur' = [cur EXCEPT ![t] = 1]
                            /\ pc' = [pc EXCEPT ![t] = "cleanup_phase"]
                            /\ UNCHANGED ret
                       [] OTHER ->
                            /\ pc' = [pc EXCEPT ![t] = "returned"]
                            /\ ret' = [ret EXCEPT ![t] = URC_FATAL_PHASE1_ERROR]
                            /\ UNCHANGED <<cur, handler>>
    /\ UNCHANGED <<heap, exc, base, envs, eid, got, raises, held, ub>>

Installed(t) == \E i \in 1 .. Len(plog[t]) : plog[t][i].rc = URC_INSTALL_CONTEXT

\* Phase 2: one frame of the cleanup phase.  Install-context pops the frames
\* below the frame and enters its landing pad; a failure ends
\* _Unwind_RaiseException with the phase-2 code, or aborts when the unwinder
\* was resumed from a landing pad or passes the handler frame.
CleanupStep(t) ==
    /\ Alive
    /\ pc[t] = "cleanup_phase"
    /\ LET context == stack[t][cur[t]]
           class == heap[exc[t]].exception_class
           actions == UA_CLEANUP_PHASE + (IF cur[t] = handler[t] THEN UA_HANDLER_FRAME ELSE 0)
       IN  \E out \in PersonalityOf(actions, class, exc[t], context) :
             /\ plog' = [plog EXCEPT ![t] = Append(@, LogEntry("cleanup", cur[t] + base[t], out))]
             /\ last' = IF context.pers = "rust"
                        THEN CallRecord(1, actions, class, exc[t], context, out)
                        ELSE last
             /\ CASE out.rc = URC_CONTINUE_UNWIND /\ cur[t] # handler[t] ->
                       /\ cur' = [cur EXCEPT ![t] = @ + 1]
                       /\ UNCHANGED <<pc, handler, ret, stack, base>>
                  [] out.rc = URC_INSTALL_CONTEXT ->
                       /\ stack' = [stack EXCEPT ![t] =
                                      <<out.context>> \o SubSeq(@, cur[t] + 1, Len(@))]
                       /\ base' = [base EXCEPT ![t] = @ + cur[t] - 1]
                       /\ handler' = [handler EXCEPT ![t] = @ - cur[t] + 1]
                       /\ cur' = [cur EXCEPT ![t] = 1]
                       /\ pc' = [pc EXCEPT ![t] = IF cur[t] = handler[t] THEN "caught" ELSE "landing"]
                       /\ UNCHANGED ret
                  [] OTHER ->
                       /\ pc' = [pc EXCEPT ![t] =
                                   IF Installed(t) \/ out.rc = URC_CONTINUE_UNWIND
                                   THEN "aborted" ELSE "returned"]
                       /\ ret' = [ret EXCEPT ![t] =
                                    IF Installed(t) \/ out.rc = URC_CONTINUE_UNWIND
                                    THEN @ ELSE URC_FATAL_PHASE2_ERROR]
                       /\ UNCHANGED <<cur, handler, stack, base>>
    /\ UNCHANGED <<heap, exc, envs, eid, got, raises, held, ub>>

\* A cleanup landing pad has run and calls _Unwind_Resume: the frame's return
\* address is now the one of that call, and phase 2 goes on from this frame.
Resume(t) ==
    /\ Alive
    /\ pc[t] = "landing"
    /\ stack' = [stack EXCEPT ![t][1] =
                   [@ EXCEPT !.ip = (@ + 1) % AddrMod, !.ip_before_instr = 0]]
    /\ pc' = [pc EXCEPT ![t] = "cleanup_phase"]
    /\ UNCHANGED <<heap, cur, handler, exc, ret, base, plog, envs, eid, got, raises, held, ub, last>>

\* The caller of panic reacts to a returned reason code by aborting.
Abort(t) ==
    /\ Alive
    /\ pc[t] = "returned"
    /\ pc' = [pc EXCEPT ![t] = "aborted"]
    /\ UNCHANGED <<heap, stack, cur, handler, exc, ret, base, plog, envs, eid, got, raises, held, ub, last>>


\* --------------------------------------------------- cleanup and discard
Unwrap(cause, second) ==
    IF cause = 0 THEN [kind |-> "panic", value |-> 0, second |-> second]
    ELSE [kind |-> "value", value |-> cause, second |-> second]

\* (*my_ep).cause.take()
TakeCauseKeep(cell) == cell
TakeCause(cell) == [cell EXCEPT !.cause = 0]

\* exception_cleanup: Box::from_raw(exception) is dropped, which drops what the
\* cause slot still holds and frees the cell.
exception_cleanup_leak(hp, h) == hp
exception_cleanup(hp, h) == [hp EXCEPT ![h].st = "freed"]

\* _Unwind_DeleteException: the unwinder calls the header's exception_cleanup.
UnwindDeleteException(hp, h) ==
    IF hp[h].exception_cleanup = "exception_cleanup" THEN exception_cleanup(hp, h) ELSE hp

\* The history of envelope i after a call: whether cleanup was called on it and
\* returned value v (0: nothing), and the heap before and after the delete.
Account(es, i, byCleanup, v, before, after) ==
    LET a == es[i].addr
        fired == before[a].exception_cleanup = "exception_cleanup"
        freed == after[a].st = "freed" /\ fired
    IN  [es EXCEPT ![i] =
           [@ EXCEPT !.cleanups = @ + (IF byCleanup THEN 1 ELSE 0),
                     !.callbacks = @ + (IF fired THEN 1 ELSE 0),
                     !.frees = @ + (IF freed THEN 1 ELSE 0),
                     !.destroyed = @ + (IF freed /\ before[a].cause # 0 THEN 1 ELSE 0),
                     !.returned = IF v # 0 THEN Append(@, v) ELSE @]]

\* cleanup(ptr) called by thread t.  On a pointer that is not a live Exception
\* the reads and the delete act on freed or foreign memory: the value read from
\* the cause slot is then arbitrary.
CleanupCall(t, ptr, second) ==
    IF ptr \in DOMAIN heap /\ heap[ptr].st = "live"
    THEN LET cause == heap[ptr].cause
             taken == [heap EXCEPT ![ptr] = TakeCause(@)]
             deleted == UnwindDeleteException(taken, ptr)
         IN  /\ heap' = deleted
             /\ envs' = Account(envs, EnvAt(envs, ptr), TRUE, cause, taken, deleted)
             /\ got' = [got EXCEPT ![t] = Unwrap(cause, second)]
             /\ UNCHANGED ub
    ELSE /\ ub' = TRUE
         /\ \E cause \in {0} \cup Payloads :
              /\ got' = [got EXCEPT ![t] = Unwrap(cause, second)]
              /\ envs' = IF ptr \in DOMAIN heap /\ EnvAt(envs, ptr) # 0
                         THEN Account(envs, EnvAt(envs, ptr), TRUE, cause, heap, heap)
                         ELSE envs
         /\ UNCHANGED heap

\* The pointer a landing pad of the head frame receives in the primary register.
Delivered(t) == stack[t][1].gr[UNWIND_DATA_REG[1]]

\* The catch landing pad of a Rust frame calls cleanup on the pointer it received.
Cleanup(t) ==
    /\ Alive
    /\ pc[t] = "caught"
    /\ stack[t][1].pers = "rust"
    /\ CleanupCall(t, Delivered(t), FALSE)
    /\ held' = [held EXCEPT ![t] = Delivered(t)]
    /\ pc' = [pc EXCEPT ![t] = "running"]
    /\ exc' = [exc EXCEPT ![t] = 0]
    /\ UNCHANGED <<stack, cur, handler, ret, base, plog, eid, raises, last>>

\* The catch block of another language's frame discards the exception: it calls
\* _Unwind_DeleteException, and cleanup is never called.
ForeignDelete(t) ==
    /\ Alive
    /\ pc[t] = "caught"
    /\ stack[t][1].pers = "foreign"
    /\ LET ptr == Delivered(t)
           deleted == UnwindDeleteException(heap, ptr)
       IN  /\ heap' = deleted
           /\ envs' = Account(envs, EnvAt(envs, ptr), FALSE, 0, heap, deleted)
    /\ pc' = [pc EXCEPT ![t] = "running"]
    /\ exc' = [exc EXCEPT ![t] = 0]
    /\ UNCHANGED <<stack, cur, handler, ret, base, plog, eid, got, raises, held, ub, last>>

\* The thread's work ends.
Finish(t) ==
    /\ Alive
    /\ pc[t] = "running"
    /\ pc' = [pc EXCEPT ![t] = "done"]
    /\ UNCHANGED <<heap, stack, cur, handler, exc, ret, base, plog, envs, eid, got, raises, held, ub, last>>

\* A caller that breaks cleanup's precondition: it calls cleanup once more on
\* the handle it has already cleaned up.
CleanupAgain(t) ==
    /\ Alive
    /\ pc[t] = "running"
    /\ held[t] # 0
    /\ CleanupCall(t, held[t], TRUE)
    /\ held' = [held EXCEPT ![t] = 0]
    /\ UNCHANGED <<stack, pc, cur, handler, exc, ret, base, plog, eid, raises, last>>

\* ---------------------------------------------------------- specifications
Next ==
    \/ \E t \in Threads, data \in Payloads, k \in FrameKinds, a \in DOMAIN heap : Raise(t, data, k, a)
    \/ \E t \in Threads : SearchStep(t)
    \/ \E t \in Threads : CleanupStep(t)
    \/ \E t \in Threads : Resume(t)
    \/ \E t \in Threads : Cleanup(t)
    \/ \E t \in Threads : ForeignDelete(t)
    \/ \E t \in Threads : Abort(t)
    \/ \E t \in Threads : Finish(t)

Spec == Init /\ [][Next]_vars

\* The same program with the progress its environment guarantees: the unwinder
\* is a loop that runs synchronously on the raising thread, so its next step is
\* always taken; a cleanup landing pad ends by resuming the unwind; and the
\* caller of panic aborts when panic returns.
Fairness ==
    /\ WF_vars(SearchStep(1))
    /\ WF_vars(CleanupStep(1))
    /\ WF_vars(Resume(1))
    /\ WF_vars(Abort(1))
SpecLive == Init /\ [][Next]_vars /\ Fairness
\* Two threads, each with its own stack, each raising once and unwinding, side
\* by side.  The callers of the raising function are taken from a few stacks:
\* a Cleanup frame below a Catch frame, a catching frame of another language,
\* and a None frame alone.  Thread 1 raises payload 1 and thread 2 payload 2, so
\* that a payload reaching the wrong thread shows.
PairStacks == {<<Entry, KCleanup, KCatch>>, <<Entry, KForeign>>, <<Entry, KNone>>}
InitTwo == InitOn({1, 2}) /\ \A t \in {1, 2} : stack[t] \in PairStacks
RaiseOnce(t, data, k, a) == raises[t] = 0 /\ Raise(t, data, k, a)
NextTwo ==
    \/ \E t \in Threads, k \in FrameKinds, a \in DOMAIN heap : RaiseOnce(t, t, k, a)
    \/ \E t \in Threads : SearchStep(t)
    \/ \E t \in Threads : CleanupStep(t)
    \/ \E t \in Threads : Resume(t)
    \/ \E t \in Threads : Cleanup(t)
    \/ \E t \in Threads : ForeignDelete(t)
    \/ \E t \in Threads : Abort(t)
SpecTwo == InitTwo /\ [][NextTwo]_vars

\* The same program with a caller that calls cleanup twice on one handle.
NextMisuse == Next \/ \E t \in Threads : CleanupAgain(t)
SpecMisuse == Init /\ [][NextMisuse]_vars

\* The personality routine as a function: every call the foreign runtime can
\* make, on any frame context.
Versions == {0, 1, 2}
ActionFlags == {UA_SEARCH_PHASE, UA_CLEANUP_PHASE, UA_CLEANUP_PHASE + UA_HANDLER_FRAME}
Classes == {rust_exception_class, ForeignClass}
Contexts ==
    {Context(ip, f, fs, l, "rust") :
        ip \in 0 .. AddrMod - 1, f \in {0, 1, 2}, fs \in {0, FuncBase}, l \in Lsdas}

PersonalityCall ==
    /\ ~last.called
    /\ \E out \in rust_eh_personality(last.version, last.actions, last.exception_class,
                                       last.exception_object, last.context) :
         last' = CallRecord(last.version, last.actions, last.exception_class,
                            last.exception_object, last.context, out)
    /\ UNCHANGED <<heap, stack, pc, cur, handler, exc, ret, base, plog, envs, eid, got, raises, held, ub>>

\* The arguments of a call that has not been made yet.
Arguments(version, actions, class, object, context) ==
    [called |-> FALSE, version |-> version, actions |-> actions, exception_class |-> class,
     exception_object |-> object, context |-> context,
     out |-> Outcome("none", context, <<>>, NotAsked)]

InitPers ==
    /\ last \in {Arguments(version, actions, class, object, context) :
                    version \in Versions, actions \in ActionFlags, class \in Classes,
                    object \in 1 .. MaxEnv + 1, context \in Contexts}
    /\ heap = [a \in Addrs |-> IF a = last.exception_object THEN NewException(1) ELSE Unallocated]
    /\ stack = [t \in {1} |-> <<Entry>>]
    /\ pc = [t \in {1} |-> "running"]
    /\ cur = [t \in {1} |-> 0]
    /\ handler = [t \in {1} |-> 0]
    /\ exc = [t \in {1} |-> 0]
    /\ ret = [t \in {1} |-> "none"]
    /\ base = [t \in {1} |-> 0]
    /\ plog = [t \in {1} |-> <<>>]
    /\ envs = <<>>
    /\ eid = [t \in {1} |-> 0]
    /\ got = [t \in {1} |-> NoResult]
    /\ raises = [t \in {1} |-> 0]
    /\ held = [t \in {1} |-> 0]
    /\ ub = FALSE

NextPers == PersonalityCall

SpecPers == InitPers /\ [][NextPers]_vars


\* ================================================================ claims
\* The action a frame resolves to: the tag of the one answer find_eh_action
\* gives for it ("Err": the metadata cannot be read; "Foreign": the frame is
\* not handled by rust_eh_personality and catches).
TagOf(context) ==
    IF context.pers = "foreign" THEN "Foreign"
    ELSE LET r == CHOOSE r \in find_eh_action(context) : TRUE
         IN  IF r.ok THEN r.action.tag ELSE "Err"
LandingPadOf(context) == (CHOOSE r \in find_eh_action(context) : TRUE).action.lpad
Tags(frames) == [i \in 1 .. Len(frames) |-> TagOf(frames[i])]
\* The envelope of thread t's latest raise.
Env(t) == envs[eid[t]]
Handled(t) == eid[t] # 0 /\ pc[t] \in {"running", "done"}

\* C1: a payload raised, caught at a catch frame of this runtime and cleaned up
\* comes back from cleanup unchanged, and cleanup returns it once: every
\* envelope has returned nothing (no cleanup yet) or exactly its own payload.
C1_RoundTrip ==
    /\ \A i \in 1 .. Len(envs) :
         /\ envs[i].cleanups <= 1
         /\ envs[i].returned = IF envs[i].cleanups = 1 THEN <<envs[i].payload>> ELSE <<>>
    /\ \A t \in Threads :
         /\ pc[t] = "caught" => Delivered(t) = exc[t] /\ heap[exc[t]].cause = Env(t).payload
         /\ (Handled(t) /\ Env(t).cleanups = 1) =>
               got[t] = [kind |-> "value", value |-> Env(t).payload, second |-> FALSE]
    /\ ~ub

\* A raise with payload 2 was caught two frames up and cleaned up.
C1_Witness ==
    \E t \in Threads :
        /\ Handled(t) /\ Env(t).cleanups = 1 /\ base[t] = 2
        /\ Env(t).payload = 2 /\ got[t].value = 2

\* C2 as stated: for no envelope do both the discard callback fire and cleanup
\* get called, and an envelope that reached a catch site has had one of them
\* when its thread goes on.
C2_ExactlyOneOfDiscardOrCleanup ==
    \A i \in 1 .. Len(envs) :
        /\ ~(envs[i].callbacks >= 1 /\ envs[i].cleanups >= 1)
        /\ (i < eid[envs[i].thread] \/ Handled(envs[i].thread)) =>
              envs[i].callbacks + envs[i].cleanups = 1

\* C2 amended: exception_cleanup fires at most once per envelope and cleanup is
\* called at most once; a cleanup call always fires exception_cleanup (through
\* _Unwind_DeleteException); and once the thread has left the catch site the
\* callback has fired exactly once and freed the envelope, with cleanup
\* called exactly when the catch frame was one of this runtime.
C2_CallbackOnceCleanupAtMostOnce ==
    \A i \in 1 .. Len(envs) :
        /\ envs[i].callbacks <= 1 /\ envs[i].cleanups <= 1
        /\ envs[i].cleanups <= envs[i].callbacks
        /\ (i < eid[envs[i].thread] \/ Handled(envs[i].thread)) =>
              /\ envs[i].callbacks = 1 /\ envs[i].frees = 1
              /\ heap[envs[i].addr].st = "live" => EnvAt(envs, envs[i].addr) # i

\* An envelope was cleaned up at a catch site, and exception_cleanup has fired
\* for it.
C2_Witness ==
    \E t \in Threads :
        /\ Handled(t) /\ Env(t).cleanups = 1 /\ Env(t).callbacks = 1
        /\ heap[Env(t).addr].st = "freed"

\* An envelope was discarded by another language's catch block, without cleanup.
C2_WitnessDiscard ==
    \E t \in Threads :
        /\ Handled(t) /\ Env(t).cleanups = 0 /\ Env(t).callbacks = 1
        /\ Env(t).destroyed = 1


\* No frame of the stack resolves to Catch (nor is another language's catching
\* frame).
NoCatchOn(frames) == \A i \in 1 .. Len(frames) : Tags(frames)[i] \notin {"Catch", "Foreign"}
Unwinding(t) == pc[t] \in {"search", "cleanup_phase", "landing", "caught", "returned", "aborted"}

\* C3 as stated: a raise on a stack without a catch frame never returns control
\* to its call site.
C3_RaiseNeverReturns ==
    \A t \in Threads : (Unwinding(t) /\ NoCatchOn(Env(t).frames)) => pc[t] # "returned"

\* C3 amended: on a stack without a catch frame no context is installed and no
\* landing pad entered; the search ends with _Unwind_RaiseException failing, and
\* panic returns its reason code to the call site: the fatal phase-1 error
\* when a frame resolves to Terminate or cannot be resolved, end-of-stack when
\* every frame resolves to None or Cleanup.  The process ends only by the
\* caller's abort on that code.
C3_NoHandlerReturnsCode ==
    \A t \in Threads :
        (Unwinding(t) /\ NoCatchOn(Env(t).frames)) =>
            /\ pc[t] \in {"search", "returned", "aborted"}
            /\ ~Installed(t)
            /\ stack[t] = Env(t).frames
            /\ \A i \in 1 .. Len(plog[t]) : plog[t][i].phase = "search" /\ ~plog[t][i].wrote
            /\ pc[t] \in {"returned", "aborted"} =>
                  ret[t] = IF \E i \in 1 .. Len(stack[t]) : Tags(stack[t])[i] \in {"Terminate", "Err"}
                           THEN URC_FATAL_PHASE1_ERROR ELSE URC_END_OF_STACK
            /\ pc[t] = "returned" => ENABLED Abort(t)

\* panic has returned end-of-stack after the search passed a Cleanup frame.
C3_Witness ==
    \E t \in Threads :
        /\ pc[t] = "returned" /\ ret[t] = URC_END_OF_STACK
        /\ Tags(stack[t]) = <<"None", "Cleanup", "None">>

\* panic has returned the fatal phase-1 error from a Terminate frame.
C3_WitnessTerminate ==
    \E t \in Threads :
        /\ pc[t] = "aborted" /\ ret[t] = URC_FATAL_PHASE1_ERROR
        /\ Tags(stack[t]) = <<"Cleanup", "Terminate">>

\* C4 as stated: a second cleanup call on a handle is rejected: it ends in the
\* panic of unwrap and returns no payload.
C4_SecondCleanupRejected ==
    \A t \in Threads : got[t].second => got[t].kind = "panic"

\* C4 amended: the first cleanup call empties the slot and frees the envelope,
\* and cleanup checks nothing: a second cleanup call on the same handle reads
\* and deletes freed memory, which is undefined.  (It panics at unwrap only if
\* the freed cell still reads as the emptied slot.)
C4_SecondCleanupIsUndefined ==
    \A t \in Threads :
        /\ (pc[t] = "running" /\ held[t] # 0) => heap[held[t]].st = "freed"
        /\ (Handled(t) /\ Env(t).cleanups = 1 /\ ~got[t].second) =>
              held[t] = Env(t).addr /\ heap[held[t]].cause = 0
        /\ got[t].second => ub

\* A second cleanup call returned the payload the first one had returned.
C4_Witness ==
    \E t \in Threads :
        /\ got[t].second /\ got[t].kind = "value"
        /\ envs[1].returned = <<got[t].value, got[t].value>>

\* What the personality routine answered in an unwind, in order.
Answers(log) == [i \in 1 .. Len(log) |-> <<log[i].phase, log[i].frame, log[i].rc, log[i].wrote>>]
IsPrefix(p, q) == Len(p) <= Len(q) /\ \A i \in 1 .. Len(p) : p[i] = q[i]
TwoPhaseExpected ==
    << <<"search", 1, URC_CONTINUE_UNWIND, FALSE>>, <<"search", 2, URC_HANDLER_FOUND, FALSE>>,
       <<"cleanup", 1, URC_CONTINUE_UNWIND, FALSE>>, <<"cleanup", 2, URC_INSTALL_CONTEXT, TRUE>> >>

\* C5: on a two-frame stack, inner frame None and outer frame Catch, the search
\* answers continue-unwind for the inner and then handler-found for the outer
\* frame; the cleanup phase that follows answers continue-unwind without a
\* register write for the inner frame and install-context, with the writes,
\* only for the outer frame, where the catch landing pad is entered.
C5_TwoPhaseOrdering ==
    \A t \in Threads :
        (eid[t] # 0 /\ Tags(Env(t).frames) = <<"None", "Catch">>) =>
            /\ IsPrefix(Answers(plog[t]), TwoPhaseExpected)
            /\ pc[t] \notin {"returned", "aborted", "landing"}
            /\ pc[t] \in {"caught", "running", "done"} =>
                  /\ Answers(plog[t]) = TwoPhaseExpected
                  /\ stack[t][1].ip = LandingPadOf(Env(t).frames[2])
                  /\ stack[t][1].gr[UNWIND_DATA_REG[1]] = Env(t).addr
            /\ pc[t] = "cleanup_phase" => stack[t] = Env(t).frames

\* The unwind of such a stack has reached its catch landing pad.
C5_Witness ==
    \E t \in Threads :
        /\ pc[t] = "caught" /\ Tags(Env(t).frames) = <<"None", "Catch">>
        /\ Len(plog[t]) = 4 /\ Len(stack[t]) = 1


\* ---- the personality routine as a function (SpecPers)
Made == last.called /\ last.version = 1
SearchCall == HasBit(last.actions, UA_SEARCH_PHASE)
Writes(calls) == SelectSeq(calls, LAMBDA c : c.op \in {"SetGR", "SetIP"})
\* What the routine does in the phase of the last call on a frame that resolves
\* to Terminate.
OnTerminate ==
    IF SearchCall THEN SearchPhase(EHTerminate, last.context, FindCalls(last.context))
    ELSE CleanupPhase(EHTerminate, last.exception_object, last.context, FindCalls(last.context))

\* C6: in either phase a frame whose action cannot be resolved gets the reason
\* code and the (absent) register writes a frame resolving to Terminate gets
\* in that phase.
C6_ErrorLikeTerminate ==
    (Made /\ last.out.eh = Err) =>
        /\ last.out.rc = OnTerminate.rc
        /\ last.out.context = OnTerminate.context
        /\ Writes(last.out.calls) = Writes(OnTerminate.calls)

\* C7: with a version other than 1 the routine returns the fatal phase-1 error,
\* does not ask the resolver and writes no register or instruction pointer,
\* whatever the phase, the class, the exception pointer and the frame.
C7_VersionGate ==
    (last.called /\ last.version # 1) =>
        /\ last.out.rc = URC_FATAL_PHASE1_ERROR
        /\ last.out.eh = NotAsked
        /\ last.out.calls = <<>>
        /\ last.out.context = last.context

\* Version 2 in the cleanup phase at a handler frame that resolves to Catch.
C7_Witness ==
    /\ last.called /\ last.version = 2
    /\ last.actions = UA_CLEANUP_PHASE + UA_HANDLER_FRAME
    /\ last.exception_class = rust_exception_class
    /\ TagOf(last.context) = "Catch"

\* C8: in the search phase (version 1) the routine answers continue-unwind for
\* None and for Cleanup(addr), handler-found for Catch(addr), the fatal phase-1
\* error for Terminate, and nothing else (an unresolved frame gets the fatal
\* phase-1 error too); it writes nothing.
C8_SearchTable ==
    (Made /\ SearchCall) =>
        /\ last.out.eh # NotAsked
        /\ last.out.eh.ok =>
              last.out.rc = CASE last.out.eh.action.tag \in {"None", "Cleanup"} -> URC_CONTINUE_UNWIND
                              [] last.out.eh.action.tag = "Catch" -> URC_HANDLER_FOUND
                              [] last.out.eh.action.tag = "Terminate" -> URC_FATAL_PHASE1_ERROR
        /\ last.out.rc \in {URC_CONTINUE_UNWIND, URC_HANDLER_FOUND, URC_FATAL_PHASE1_ERROR}
        /\ last.out.context = last.context

\* A search-phase call on a frame resolving to Cleanup with a non-zero landing pad.
C8_Witness ==
    /\ Made /\ SearchCall /\ last.out.eh.ok
    /\ last.out.eh.action.tag = "Cleanup" /\ last.out.eh.action.lpad = FuncBase + 8
    /\ last.out.rc = URC_CONTINUE_UNWIND

\* C9: in the cleanup phase (version 1) the routine answers continue-unwind for
\* None and the fatal phase-2 error for Terminate, writing nothing; for
\* Cleanup(lpad) and Catch(lpad) it sets the primary register of
\* UNWIND_DATA_REG to the exception pointer, the secondary register to 0 and
\* the instruction pointer to lpad, touches nothing else, and answers
\* install-context.
C9_CleanupTable ==
    (Made /\ ~SearchCall /\ last.out.eh.ok) =>
        LET tag == last.out.eh.action.tag
            lpad == last.out.eh.action.lpad
        IN  CASE tag = "None" ->
                    last.out.rc = URC_CONTINUE_UNWIND /\ last.out.context = last.context
              [] tag = "Terminate" ->
                    last.out.rc = URC_FATAL_PHASE2_ERROR /\ last.out.context = last.context
              [] tag \in {"Cleanup", "Catch"} ->
                    /\ last.out.rc = URC_INSTALL_CONTEXT
                    /\ last.out.context.gr[UNWIND_DATA_REG[1]] = last.exception_object
                    /\ last.out.context.gr[UNWIND_DATA_REG[2]] = 0
                    /\ last.out.context.ip = lpad
                    /\ \A r \in RegIds \ {UNWIND_DATA_REG[1], UNWIND_DATA_REG[2]} :
                          last.out.context.gr[r] = last.context.gr[r]
                    /\ Writes(last.out.calls) =
                          << Call("SetGR", 0, last.exception_object), Call("SetGR", 1, 0),
                             Call("SetIP", lpad, 0) >>

\* A cleanup-phase call at the handler frame has installed a catch landing pad
\* that differs from the frame's reported instruction pointer.
C9_Witness ==
    /\ Made /\ last.actions = UA_CLEANUP_PHASE + UA_HANDLER_FRAME
    /\ last.out.eh.ok /\ last.out.eh.action.tag = "Catch"
    /\ last.out.rc = URC_INSTALL_CONTEXT /\ last.exception_object = 2
    /\ last.out.context.ip # last.context.ip

\* The instruction pointer find_eh_action handed to the decoder in the last call.
Queried == (CHOOSE i \in 1 .. Len(last.out.calls) : last.out.calls[i].op = "decode")

\* C10: the instruction pointer handed to the decoder is the reported one when
\* the ip-before-instruction flag is non-zero, and the reported one minus 1
\* when the flag is zero; so a return address on the boundary of two ranges of
\* the table is resolved with the earlier range.
C10_OffByOne ==
    Made =>
        LET context == last.context
            q == last.out.calls[Queried].a
        IN  /\ context.ip_before_instr # 0 => q = context.ip
            /\ (context.ip_before_instr = 0 /\ context.ip > 0) => q = context.ip - 1
            /\ \A k \in 2 .. Len(context.lsda) :
                  (/\ context.lsda # Corrupt
                   /\ context.ip_before_instr = 0
                   /\ context.ip = context.func_start + context.lsda[k].start) =>
                      last.out.eh = Ok(ActionOf(context.lsda[k - 1], context.func_start))

\* A return address on the boundary between the Cleanup and the Catch range of
\* LsdaA resolved to Cleanup.
C10_Witness ==
    /\ Made /\ last.context.ip_before_instr = 0 /\ last.context.lsda = LsdaA
    /\ last.context.ip = last.context.func_start + 4 /\ last.context.func_start = FuncBase
    /\ last.out.eh = Ok(EHCleanup(FuncBase + 8))

\* Whether instruction pointer q lies in the range of the function of the frame.
InRange(context, q) ==
    context.func_start <= q /\ q < context.func_start + FuncLen(context.lsda)

\* C11: whatever frame context the foreign runtime supplies (any reported
\* instruction pointer, any flag, any function start), the instruction pointer
\* find_eh_action hands to the decoder lies in the function's range.
C11_RangeValid ==
    (Made /\ last.context.lsda # Corrupt) => InRange(last.context, last.out.calls[Queried].a)

\* The accessors of the foreign runtime and the decoder: all that a call of the
\* routine may use.
FrameOps ==
    {"GetLanguageSpecificData", "GetIPInfo", "GetRegionStart", "decode", "SetGR", "SetIP"}
\* The envelope the exception pointer of the last call points to, as the
\* foreign runtime handed it over.
Untouched ==
    \A a \in Addrs :
        heap[a] = IF a = last.exception_object THEN NewException(1) ELSE Unallocated

\* C12: the routine writes registers and the instruction pointer only on the
\* path that answers install-context (a cleanup-phase call of version 1 on a
\* frame resolving to Cleanup or Catch); on every other outcome the frame
\* context is as it was and no write was made; the writes touch nothing but
\* the registers and the instruction pointer; and on no path is the envelope
\* allocated, freed or changed.
C12_FrameOfPersonality ==
    /\ Untouched
    /\ envs = <<>>
    /\ last.called =>
          /\ last.out.rc # URC_INSTALL_CONTEXT =>
                last.out.context = last.context /\ Writes(last.out.calls) = <<>>
          /\ last.out.rc = URC_INSTALL_CONTEXT =>
                /\ Made /\ ~SearchCall /\ last.out.eh.ok
                /\ last.out.eh.action.tag \in {"Cleanup", "Catch"}
                /\ Len(Writes(last.out.calls)) = 3
          /\ [last.out.context EXCEPT !.gr = last.context.gr, !.ip = last.context.ip] = last.context
          /\ \A i \in 1 .. Len(last.out.calls) : last.out.calls[i].op \in FrameOps

\* A search-phase call on a frame resolving to Catch, for a live envelope:
\* handler-found, and the frame is as it was.
C12_Witness ==
    /\ Made /\ SearchCall /\ last.out.rc = URC_HANDLER_FOUND
    /\ last.exception_object \in Addrs /\ heap[last.exception_object].st = "live"
    /\ last.out.context = last.context /\ last.context.ip # last.out.eh.action.lpad

\* ---- cleanup frames below the catch frame (Spec)
\* The first frame of a stack that resolves to Catch (0: none).
FirstCatch(tags) ==
    LET S == {i \in 1 .. Len(tags) : tags[i] = "Catch"}
    IN  IF S = {} THEN 0 ELSE CHOOSE i \in S : \A j \in S : i <= j
\* Frames resolving to None or Cleanup, at least one of them to Cleanup, lie
\* between the raise point and the first frame resolving to Catch.
CleanupBeforeCatch(tags) ==
    /\ FirstCatch(tags) # 0
    /\ \A i \in 1 .. FirstCatch(tags) - 1 : tags[i] \in {"None", "Cleanup"}
    /\ \E i \in 1 .. FirstCatch(tags) - 1 : tags[i] = "Cleanup"

SearchExpected(h) ==
    [i \in 1 .. h |->
        <<"search", i, IF i = h THEN URC_HANDLER_FOUND ELSE URC_CONTINUE_UNWIND, FALSE>>]
\* The cleanup phase from frame i to the handler frame h: a Cleanup frame gets
\* install-context and, when its landing pad resumes the unwind, is asked
\* once more and passed; a None frame is passed.
RECURSIVE CleanupExpected(_, _, _)
CleanupExpected(tags, i, h) ==
    IF i >= h THEN << <<"cleanup", h, URC_INSTALL_CONTEXT, TRUE>> >>
    ELSE (IF tags[i] = "Cleanup"
          THEN << <<"cleanup", i, URC_INSTALL_CONTEXT, TRUE>>,
                  <<"cleanup", i, URC_CONTINUE_UNWIND, FALSE>> >>
          ELSE << <<"cleanup", i, URC_CONTINUE_UNWIND, FALSE>> >>)
         \o CleanupExpected(tags, i + 1, h)
\* The frames at which an unwind installed context, in order.
InstalledAt(log) ==
    LET I == SelectSeq(log, LAMBDA e : e.rc = URC_INSTALL_CONTEXT)
    IN  [i \in 1 .. Len(I) |-> I[i].frame]
RECURSIVE Ascending(_)
Ascending(s) == Len(s) <= 1 \/ (s[1] < s[2] /\ Ascending(Tail(s)))

\* C13: on a stack where Cleanup frames lie between the raise point and the
\* first Catch frame, the search passes every one of them with continue-unwind
\* and selects the Catch frame; the cleanup phase installs context at each of
\* the Cleanup frames, inner to outer, each time with the exception pointer
\* and the frame's cleanup landing pad, and the last install-context is at the
\* handler frame, with the instruction pointer at its catch landing pad.
C13_CleanupBeforeCatch ==
    \A t \in Threads :
        (eid[t] # 0 /\ CleanupBeforeCatch(Tags(Env(t).frames))) =>
            LET tags == Tags(Env(t).frames)
                h == FirstCatch(tags)
                expected == SearchExpected(h) \o CleanupExpected(tags, 1, h)
            IN  /\ IsPrefix(Answers(plog[t]), expected)
                /\ pc[t] \notin {"returned", "aborted"}
                /\ Ascending(InstalledAt(plog[t]))
                /\ \A i \in 1 .. Len(InstalledAt(plog[t])) :
                      tags[InstalledAt(plog[t])[i]] \in {"Cleanup", "Catch"}
                /\ pc[t] = "landing" =>
                      /\ tags[base[t] + 1] = "Cleanup"
                      /\ stack[t][1].ip = LandingPadOf(Env(t).frames[base[t] + 1])
                      /\ Delivered(t) = Env(t).addr
                /\ pc[t] \in {"caught", "running", "done"} =>
                      /\ Answers(plog[t]) = expected
                      /\ InstalledAt(plog[t])[Len(InstalledAt(plog[t]))] = h
                      /\ {i \in 1 .. h : tags[i] = "Cleanup"} \cup {h} =
                            {InstalledAt(plog[t])[i] : i \in 1 .. Len(InstalledAt(plog[t]))}
                      /\ stack[t][1].ip = LandingPadOf(Env(t).frames[h])

\* An unwind through two Cleanup frames has reached the catch landing pad of
\* the third frame.
C13_Witness ==
    \E t \in Threads :
        /\ pc[t] = "caught" /\ Tags(Env(t).frames) = <<"Cleanup", "Cleanup", "Catch">>
        /\ InstalledAt(plog[t]) = <<1, 2, 3>> /\ Len(plog[t]) = 8

\* ---- completion of an unwind (SpecLive)
InFlight(t) == pc[t] \in {"search", "cleanup_phase", "landing", "returned"}
Ended(t) == pc[t] \in {"caught", "aborted"}

\* C14: once raise has been entered the traversal ends: the thread reaches a
\* catch landing pad, or the process is terminated; until then the unwind stays
\* in flight (no step takes the thread back to normal execution part way), and
\* a thread at a catch landing pad was put there by an install-context at the
\* handler frame.
C14_UnwindCompletes ==
    /\ InFlight(1) ~> Ended(1)
    /\ [][InFlight(1) => (InFlight(1)' \/ Ended(1)')]_vars
    /\ [](pc[1] = "caught" =>
            /\ plog[1][Len(plog[1])].rc = URC_INSTALL_CONTEXT
            /\ plog[1][Len(plog[1])].frame = base[1] + 1)

\* A raise on a stack of three frames without a catch frame has ended with
\* the process terminated.
C14_Witness ==
    /\ pc[1] = "aborted" /\ ret[1] = URC_END_OF_STACK
    /\ Len(plog[1]) = 3 /\ heap[exc[1]].st = "live"

\* ---- envelope memory (Spec)
LiveCells(hp) == {a \in DOMAIN hp : hp[a].st = "live"}
\* The cells whose allocation state a step changes.
Changed(hp, hq) == {a \in DOMAIN hp : hp[a].st # hq[a].st}

\* What holds of the heap and the history of envelopes in every state.
MemoryBalanced ==
    /\ \A i \in 1 .. Len(envs) :
         /\ envs[i].allocs = 1 /\ envs[i].frees <= 1
         /\ (envs[i].cleanups >= 1 \/ envs[i].callbacks >= 1) => envs[i].frees = 1
         /\ envs[i].frees = 1 <=> ~(heap[envs[i].addr].st = "live" /\ EnvAt(envs, envs[i].addr) = i)
    /\ Cardinality(LiveCells(heap)) = Cardinality({i \in 1 .. Len(envs) : envs[i].frees = 0})
    /\ \A t \in Threads :
         Unwinding(t) => heap[exc[t]].st = "live" /\ Env(t).frees = 0 /\ Env(t).addr = exc[t]
\* What a step does to the heap: a raise makes one cell live and frees none;
\* a step that leaves a catch landing pad (cleanup, or the discard by another
\* runtime's catch block) frees the one cell of the exception it caught; every
\* other step (the personality calls of both phases among them) changes no cell.
MemoryStep ==
    \/ /\ Len(envs') = Len(envs) + 1
       /\ \E a \in DOMAIN heap :
            /\ Changed(heap, heap') = {a} /\ heap[a].st # "live" /\ heap'[a].st = "live"
            /\ envs'[Len(envs')].addr = a
    \/ /\ Len(envs') = Len(envs)
       /\ \E t \in Threads :
            /\ pc[t] = "caught" /\ pc'[t] = "running"
            /\ Changed(heap, heap') = {exc[t]} /\ heap'[exc[t]].st = "freed"
    \/ /\ Len(envs') = Len(envs)
       /\ Changed(heap, heap') = {}
       /\ \A t \in Threads : ~(pc[t] = "caught" /\ pc'[t] = "running")

\* C15: every raise allocates exactly one envelope; an envelope is freed at
\* most once, and exactly once when it has been cleaned up at a catch site or
\* discarded by the foreign runtime; the live cells are exactly the envelopes
\* not yet freed; and no other step of the unwind allocates or frees.
C15_MemoryAccounting == []MemoryBalanced /\ [][MemoryStep]_vars

\* An envelope was freed by cleanup after an unwind with six personality calls.
C15_Witness ==
    \E t \in Threads :
        /\ Handled(t) /\ Env(t).frees = 1 /\ Env(t).cleanups = 1 /\ Len(plog[t]) = 6
        /\ LiveCells(heap) = {}

\* ---- two threads (SpecTwo)
\* What a thread sees of its own unwind: where it is, its frames with their
\* registers, and the personality results so far.
Local(t) ==
    [pc |-> CASE pc[t] \in {"running", "done"} -> "caught"
              [] pc[t] = "aborted" /\ ret[t] # "none" -> "returned"
              [] OTHER -> pc[t],
     stack |-> stack[t], cur |-> cur[t], handler |-> handler[t], base |-> base[t],
     plog |-> plog[t], ret |-> ret[t]]
SoloStart(frames) ==
    [pc |-> "search", stack |-> frames, cur |-> 1, handler |-> 0, base |-> 0,
     plog |-> <<>>, ret |-> "none"]
\* One step of the unwind of a thread that runs alone, raising the envelope at
\* obj: the step SearchStep, CleanupStep or Resume takes, on the thread's own
\* state only.
SoloStep(s, obj) ==
    CASE s.pc = "search" ->
           IF s.cur > Len(s.stack) THEN [s EXCEPT !.pc = "returned", !.ret = URC_END_OF_STACK]
           ELSE LET out == CHOOSE o \in PersonalityOf(UA_SEARCH_PHASE, rust_exception_class,
                                                      obj, s.stack[s.cur]) : TRUE
                    s1 == [s EXCEPT !.stack[s.cur] = out.context,
                                    !.plog = Append(@, LogEntry("search", s.cur + s.base, out))]
                IN  CASE out.rc = URC_CONTINUE_UNWIND -> [s1 EXCEPT !.cur = @ + 1]
                      [] out.rc = URC_HANDLER_FOUND ->
                            [s1 EXCEPT !.handler = s.cur, !.cur = 1, !.pc = "cleanup_phase"]
                      [] OTHER -> [s1 EXCEPT !.pc = "returned", !.ret = URC_FATAL_PHASE1_ERROR]
      [] s.pc = "cleanup_phase" ->
           LET actions == UA_CLEANUP_PHASE + (IF s.cur = s.handler THEN UA_HANDLER_FRAME ELSE 0)
               out == CHOOSE o \in PersonalityOf(actions, rust_exception_class,
                                                 obj, s.stack[s.cur]) : TRUE
               s1 == [s EXCEPT !.plog = Append(@, LogEntry("cleanup", s.cur + s.base, out))]
               was == \E i \in 1 .. Len(s.plog) : s.plog[i].rc = URC_INSTALL_CONTEXT
           IN  CASE out.rc = URC_CONTINUE_UNWIND /\ s.cur # s.handler -> [s1 EXCEPT !.cur = @ + 1]
                 [] out.rc = URC_INSTALL_CONTEXT ->
                       [s1 EXCEPT !.stack = <<out.context>> \o SubSeq(@, s.cur + 1, Len(@)),
                                  !.base = @ + s.cur - 1, !.handler = @ - s.cur + 1, !.cur = 1,
                                  !.pc = IF s.cur = s.handler THEN "caught" ELSE "landing"]
                 [] OTHER ->
                       IF was \/ out.rc = URC_CONTINUE_UNWIND THEN [s1 EXCEPT !.pc = "aborted"]
                       ELSE [s1 EXCEPT !.pc = "returned", !.ret = URC_FATAL_PHASE2_ERROR]
      [] s.pc = "landing" ->
           [s EXCEPT !.stack[1] = [@ EXCEPT !.ip = (@ + 1) % AddrMod, !.ip_before_instr = 0],
                     !.pc = "cleanup_phase"]
      [] OTHER -> s
\* The states a thread running alone passes through, in at most n steps.
RECURSIVE SoloStates(_, _, _)
SoloStates(s, obj, n) ==
    IF n = 0 \/ s.pc \in {"caught", "returned", "aborted"} THEN {s}
    ELSE {s} \cup SoloStates(SoloStep(s, obj), obj, n - 1)
SoloFuel(frames) == 4 * Len(frames) + 2

\* What of a thread a step can change.
Own(t) ==
    <<stack[t], pc[t], cur[t], handler[t], exc[t], ret[t], base[t], plog[t], eid[t],
      got[t], raises[t], held[t]>>
\* A step is one thread's: it leaves the other thread's state, the other
\* thread's envelope while it is in flight, and every cell but the thread's own
\* as they were.
StepOfOne ==
    \E t \in {1, 2} :
        LET u == 3 - t
        IN  /\ Own(u)' = Own(u)
            /\ exc[u] # 0 => heap'[exc[u]] = heap[exc[u]]
            /\ \A a \in DOMAIN heap : heap'[a] # heap[a] => a \in {exc[t], exc'[t]}

\* What each thread observes in every state.
SameAsAlone ==
    \A t \in {1, 2} :
        eid[t] # 0 =>
            /\ Local(t) \in SoloStates(SoloStart(Env(t).frames), Env(t).addr,
                                       SoloFuel(Env(t).frames))
            /\ Unwinding(t) => exc[t] = Env(t).addr /\ heap[exc[t]] = NewException(Env(t).payload)
            /\ pc[t] \in {"landing", "caught"} => Delivered(t) = Env(t).addr
            /\ (Handled(t) /\ stack[t][1].pers = "rust") =>
                  got[t] = [kind |-> "value", value |-> Env(t).payload, second |-> FALSE]
            /\ Env(t).thread = t

\* C16: with two threads raising and unwinding on their own stacks, under every
\* interleaving each thread passes through the states (personality results,
\* frames and registers) it passes through when it runs alone, receives the
\* pointer of its own envelope and recovers its own payload; and no step of a
\* thread changes the other thread's state or envelope.
C16_IndependentUnwinds == []SameAsAlone /\ [][StepOfOne]_vars /\ [](~ub)

\* Both threads are in flight together, each with its own live envelope:
\* thread 1 has reached its catch landing pad through a Cleanup frame while
\* thread 2 is in the landing pad of a Cleanup frame.
C16_Witness ==
    /\ pc[1] = "caught" /\ pc[2] = "landing"
    /\ Env(1).addr = 2 /\ Env(2).addr = 1 /\ Env(1).payload = 1 /\ Env(2).payload = 2
    /\ heap[1].st = "live" /\ heap[2].st = "live"
    /\ Delivered(1) = 2 /\ Delivered(2) = 1
    /\ InstalledAt(plog[1]) = <<2, 3>>

\* ---- the class tag (Spec)
\* The hexadecimal digits of 0x4d4f5a0052555354, and the bytes they spell, most
\* significant first.
TagDigits == <<4, 13, 4, 15, 5, 10, 0, 0, 5, 2, 5, 5, 5, 3, 5, 4>>
BytesOf(digits) == [i \in 1 .. Len(digits) \div 2 |-> 16 * digits[2 * i - 1] + digits[2 * i]]
\* ASCII codes of the letters of the vendor and the language.
Ascii(ch) ==
    CASE ch = "M" -> 77 [] ch = "O" -> 79 [] ch = "Z" -> 90 [] ch = "R" -> 82
      [] ch = "U" -> 85 [] ch = "S" -> 83 [] ch = "T" -> 84 [] OTHER -> 0
VendorLanguage == [i \in 1 .. 8 |-> Ascii(<<"M", "O", "Z", "NUL", "R", "U", "S", "T">>[i])]

\* C17: every envelope raise creates carries the class tag 0x4d4f5a0052555354,
\* which spells MOZ\0 RUST, and the unwinder passes that tag to the routine;
\* and the outcome of a call of rust_eh_personality (reason code, frame context
\* with its register and instruction-pointer writes, calls made) is the outcome
\* of the call with the same arguments and any other class, this runtime's or
\* a foreign one.
C17_ClassTagNotActedOn ==
    /\ BytesOf(TagDigits) = VendorLanguage
    /\ \A a \in DOMAIN heap :
          heap[a].st # "unalloc" => heap[a].exception_class = BytesOf(TagDigits)
    /\ last.called =>
          /\ last.exception_class = BytesOf(TagDigits)
          /\ \A c \in Classes :
                rust_eh_personality(last.version, last.actions, c, last.exception_object,
                                    last.context) = {last.out}

\* The routine has answered handler-found for an envelope that raise created,
\* with the tag in its header.
C17_Witness ==
    /\ last.called /\ last.out.rc = URC_HANDLER_FOUND
    /\ last.exception_object \in DOMAIN heap
    /\ heap[last.exception_object].st = "live"
    /\ heap[last.exception_object].exception_class = rust_exception_class
    /\ ForeignClass \in Classes /\ ForeignClass # last.exception_class

\* ---- agreement of the two phases (SpecPers)
\* What the routine answers in each phase for the action the resolver gave in
\* the last call, on the frame context and exception pointer of that call.
InSearch == SearchPhase(last.out.eh.action, last.context, FindCalls(last.context))
InCleanup ==
    CleanupPhase(last.out.eh.action, last.exception_object, last.context,
                 FindCalls(last.context))

\* C18: when the resolver gives the same action for a frame in both phases, a
\* frame for which the search phase answers handler-found is a frame for which
\* the cleanup phase answers install-context (never continue-unwind), with the
\* instruction pointer at the landing pad of that same Catch action and the
\* primary register holding the exception pointer of the call.
C18_PhaseAgreement ==
    (Made /\ last.out.eh.ok) =>
        /\ last.out = IF SearchCall THEN InSearch ELSE InCleanup
        /\ InSearch.rc = URC_HANDLER_FOUND =>
              /\ last.out.eh.action.tag = "Catch"
              /\ InCleanup.rc = URC_INSTALL_CONTEXT
              /\ InCleanup.context.ip = last.out.eh.action.lpad
              /\ InCleanup.context.gr[UNWIND_DATA_REG[1]] = last.exception_object
              /\ InSearch.context = last.context

\* A cleanup-phase call at the handler frame, on a frame for which the search
\* phase answers handler-found, has installed the catch landing pad.
C18_Witness ==
    /\ Made /\ last.out.eh.ok /\ last.actions = UA_CLEANUP_PHASE + UA_HANDLER_FRAME
    /\ InSearch.rc = URC_HANDLER_FOUND /\ last.out.rc = URC_INSTALL_CONTEXT
    /\ last.context.lsda = LsdaB /\ last.out.context.ip = last.context.func_start + 8
    /\ last.exception_object = 1

\* ---- ownership of the payload (Spec)
\* C19: the payload of an envelope ends up in one place.  While the envelope
\* has not been deleted the payload is in its slot; cleanup moves it out and
\* empties the slot before it deletes the envelope, so the delete (and the
\* exception_cleanup it triggers) destroys no payload and the caller holds it;
\* an envelope discarded without cleanup is destroyed with its payload; and no
\* payload is both returned and destroyed, or destroyed twice.
C19_PayloadOwnership ==
    \A i \in 1 .. Len(envs) :
        LET e == envs[i]
            cell == heap[e.addr]
            mine == EnvAt(envs, e.addr) = i
        IN  /\ Len(e.returned) + e.destroyed <= 1
            /\ e.frees = 0 => (e.returned = <<>> /\ e.destroyed = 0 /\ cell.cause = e.payload)
            /\ (e.frees = 1 /\ e.cleanups = 1) =>
                  /\ e.returned = <<e.payload>> /\ e.destroyed = 0
                  /\ (mine /\ cell.st = "freed") => cell.cause = 0
            /\ (e.frees = 1 /\ e.cleanups = 0) =>
                  /\ e.returned = <<>> /\ e.destroyed = 1
                  /\ (mine /\ cell.st = "freed") => cell.cause = e.payload
            /\ e.frees = 1 => Len(e.returned) + e.destroyed = 1

\* cleanup has returned payload 2 to its caller; the envelope was deleted with
\* an empty slot, and nothing was destroyed.
C19_Witness ==
    \E t \in Threads :
        /\ Handled(t) /\ Env(t).cleanups = 1 /\ Env(t).callbacks = 1 /\ Env(t).frees = 1
        /\ Env(t).returned = <<2>> /\ Env(t).destroyed = 0
        /\ heap[Env(t).addr].cause = 0 /\ got[t].value = 2

====
